---- MODULE Spec2Model ----
(***************************************************************************)
(* Model of src/ga_api_upd/ga_mcc_download_data.py: the manager-account    *)
(* run (discovery, pooled per-account extraction, serial sink writes) and  *)
(* the per-account extraction functions it calls.                          *)
(*                                                                         *)
(* Representation of the Python values:                                    *)
(*   - a DataFrame is [columns |-> set of column names, rows |-> sequence  *)
(*     of rows]; a row is a function from the columns that hold a value to *)
(*     that value, and a column of the frame that is absent from a row's   *)
(*     domain is a NaN cell of that row;                                   *)
(*   - the cells of the id columns are tagged with their Python type,      *)
(*     <<"int", n>> or <<"str", s>>, because astype(str) and str() act on  *)
(*     the type; every other cell is the plain value;                      *)
(*   - a source query (search_stream) is [rows, err]: the rows it yields   *)
(*     and how it ends ("none", "GoogleAdsException" raised after those    *)
(*     rows, or any other "Exception").                                    *)
(***************************************************************************)
EXTENDS Integers, Sequences, FiniteSets, TLC

(***************************************************************************)
(* Bounds of the model.                                                    *)
(***************************************************************************)
\* Number of distinct child accounts the discovery query can return.
NumAccounts == 2
\* Longest row sequence one campaign-level source query yields.
MaxRows == 2
\* Number of child accounts beyond the capacity of the pool, in the run that
\* fills the pool.
ExtraAccounts == 1
\* Number of extractions that finish, in the run that fills the pool, before
\* the exploration of that run stops.
MaxFinished == 2

(***************************************************************************)
(* Python helpers.                                                         *)
(***************************************************************************)
PyInt(n) == <<"int", n>>
PyStr(s) == <<"str", s>>

Digits == <<"0", "1", "2", "3", "4", "5", "6", "7", "8", "9">>

\* str(n) for the ids of the model, which have one or two digits.
Str(n) ==
    IF n < 10 THEN Digits[n + 1]
    ELSE Digits[(n \div 10) + 1] \o Digits[(n % 10) + 1]

\* str(v) of a tagged id cell: an int is formatted, a str is returned as is.
PyStrOf(v) == IF v[1] = "int" THEN PyStr(Str(v[2])) ELSE v

\* Position of a one-digit decimal string in lexicographic order.
StrRank(s) == CHOOSE n \in 0..9 : Digits[n + 1] = s

\* The dates of the extraction window that the model uses, in calendar
\* (and therefore lexicographic) order.
Dates == <<"2024-01-01", "2024-01-02">>

DateRank(d) == CHOOSE i \in 1..Len(Dates) : Dates[i] = d

\* The campaign and ad-group names that the model uses, in the order of
\* Python's string comparison.
Names == <<"Performance Max", "brand", "other", "pmax", "search">>

NameRank(s) == CHOOSE i \in 1..Len(Names) : Names[i] = s

RECURSIVE SeqSum(_)
SeqSum(s) == IF s = <<>> THEN 0 ELSE Head(s) + SeqSum(Tail(s))

RECURSIVE Flatten(_)
Flatten(ss) == IF ss = <<>> THEN <<>> ELSE Head(ss) \o Flatten(Tail(ss))

SeqToSet(s) == {s[i] : i \in 1..Len(s)}

\* Sequences over S of length at most n.
SeqsUpTo(S, n) == UNION {[1..k -> S] : k \in 0..n}

(***************************************************************************)
(* pandas.                                                                 *)
(***************************************************************************)
\* pd.DataFrame(): no columns, no rows.
EmptyFrame == [columns |-> {}, rows |-> <<>>]

\* pd.DataFrame(list of dicts): the columns are the keys of the dicts.
DataFrame(rows) ==
    [columns |-> UNION {DOMAIN rows[i] : i \in 1..Len(rows)}, rows |-> rows]

\* DataFrame.empty: an axis of length 0.
IsEmpty(df) == df.columns = {} \/ Len(df.rows) = 0

\* df[col] = value (a scalar broadcast to every row).
SetColumn(df, col, value) ==
    [columns |-> df.columns \cup {col},
     rows |-> [i \in 1..Len(df.rows) |->
                 [c \in (DOMAIN df.rows[i]) \cup {col} |->
                     IF c = col THEN value ELSE df.rows[i][c]]]]

\* df[col] = df[col].fillna(value)
FillNa(df, col, value) ==
    [columns |-> df.columns,
     rows |-> [i \in 1..Len(df.rows) |->
                 IF col \in DOMAIN df.rows[i]
                 THEN df.rows[i]
                 ELSE [c \in (DOMAIN df.rows[i]) \cup {col} |->
                          IF c = col THEN value ELSE df.rows[i][c]]]]

\* pd.concat([a, b], ignore_index=True): the rows of a, then the rows of b,
\* over the union of the columns.
Concat(a, b) ==
    [columns |-> a.columns \cup b.columns, rows |-> a.rows \o b.rows]

\* The value of a row on the join columns, as ranks that order like the
\* Python values do.
KeyRank(col, v) ==
    IF col = "date" THEN DateRank(v)
    ELSE IF col \in {"campaign_name", "ad_group_name"} THEN NameRank(v)
    ELSE IF v[1] = "int" THEN v[2] ELSE StrRank(v[2])

KeyOf(row, on) == [i \in 1..Len(on) |-> KeyRank(on[i], row[on[i]])]

RECURSIVE LexLess(_, _)
LexLess(k1, k2) ==
    IF k1 = <<>> THEN FALSE
    ELSE \/ Head(k1) < Head(k2)
         \/ Head(k1) = Head(k2) /\ LexLess(Tail(k1), Tail(k2))

\* The distinct keys of a set, in lexicographic order.
RECURSIVE SortKeys(_)
SortKeys(K) ==
    IF K = {} THEN <<>>
    ELSE LET m == CHOOSE k \in K : \A o \in K : ~LexLess(o, k)
         IN <<m>> \o SortKeys(K \ {m})

SelectRows(rows, on, key) == SelectSeq(rows, LAMBDA r : KeyOf(r, on) = key)

\* pd.merge(left, right, on=on, how="outer"): every key of either side, in
\* lexicographic order; for a key, every pairing of its left rows with its
\* right rows, or the rows of the one side that has it, whose cells of the
\* other side's columns are NaN.  The two frames share only the columns of on.
Merge(left, right, on) ==
    LET keys == {KeyOf(left.rows[i], on) : i \in 1..Len(left.rows)}
                \cup {KeyOf(right.rows[i], on) : i \in 1..Len(right.rows)}
        order == SortKeys(keys)
        Group(key) ==
            LET ls == SelectRows(left.rows, on, key)
                rs == SelectRows(right.rows, on, key)
            IN IF rs = <<>> THEN ls
               ELSE IF ls = <<>> THEN rs
               ELSE Flatten([i \in 1..Len(ls) |->
                               [j \in 1..Len(rs) |-> rs[j] @@ ls[i]]])
    IN [columns |-> left.columns \cup right.columns,
        rows |-> Flatten([i \in 1..Len(order) |-> Group(order[i])])]

(***************************************************************************)
(* The source (GoogleAdsService.search_stream) and the rows it yields.     *)
(***************************************************************************)
MICROS == 1000000

\* x / 1000000, a Python float, by its value: the integer when the quotient is
\* whole (2.0 == 2), and otherwise the whole part with the fraction in
\* millionths (1500000 / 1000000 is 1.5, whole 1 and 500000 millionths).
FromMicros(x) ==
    IF x % MICROS = 0 THEN x \div MICROS
    ELSE [whole |-> x \div MICROS, millionths |-> x % MICROS]

\* A query that yields rows and ends normally, and the two ways it can fail.
Ok(rows) == [rows |-> rows, err |-> "none"]
GoogleAdsError(rows) == [rows |-> rows, err |-> "GoogleAdsException"]
OtherError == [rows |-> <<>>, err |-> "Exception"]

(***************************************************************************)
(* load_pmax_data                                                          *)
(***************************************************************************)
PmaxRow(account_name, r) ==
    [account_name |-> account_name,
     campaign_id |-> PyInt(r.campaign_id),
     campaign_name |-> r.campaign_name,
     campaign_status |-> r.campaign_status,
     daily_budget |-> FromMicros(r.amount_micros),
     ad_group_id |-> PyStr("0"),
     ad_group_name |-> "Performance Max",
     date |-> r.date,
     clicks |-> r.clicks,
     impressions |-> r.impressions,
     cost |-> FromMicros(r.cost_micros)]

PmaxConvRow(r) ==
    [campaign_id |-> PyInt(r.campaign_id),
     date |-> r.date,
     conversion_name |-> r.conversion_action_name,
     conversions |-> r.conversions]

Raised(printed) == [raised |-> TRUE, df |-> EmptyFrame, log |-> printed]
Returned(df, printed) == [raised |-> FALSE, df |-> df, log |-> printed]

LogEntry(context, customer_id) == [context |-> context, account |-> customer_id]

load_pmax_data(customer_id, account_name, q_general, q_conv) ==
    LET pmax_df == DataFrame([i \in 1..Len(q_general.rows) |->
                                PmaxRow(account_name, q_general.rows[i])])
        conv_df == DataFrame([i \in 1..Len(q_conv.rows) |->
                                PmaxConvRow(q_conv.rows[i])])
        handled == Returned(EmptyFrame, <<LogEntry("PMax", customer_id)>>)
    IN  IF q_general.err = "Exception" THEN Raised(<<>>)
        ELSE IF q_general.err = "GoogleAdsException" THEN handled
        ELSE IF q_conv.err = "Exception" THEN Raised(<<>>)
        ELSE IF q_conv.err = "GoogleAdsException" THEN handled
        ELSE IF IsEmpty(pmax_df) /\ IsEmpty(conv_df) THEN Returned(EmptyFrame, <<>>)
        ELSE IF IsEmpty(pmax_df)
             THEN Returned(SetColumn(SetColumn(conv_df, "account_name", account_name),
                                     "ad_group_name", "Performance Max"), <<>>)
        ELSE IF IsEmpty(conv_df) THEN Returned(pmax_df, <<>>)
        ELSE Returned(FillNa(Merge(pmax_df, conv_df, <<"campaign_id", "date">>),
                             "account_name", account_name), <<>>)

(***************************************************************************)
(* get_all_campaign_data_for_account                                       *)
(***************************************************************************)
\* The campaign_budgets dict: str(campaign id) -> budget, a later row of the
\* same campaign overwriting an earlier one.
CampaignBudgets(rows) ==
    [k \in {Str(rows[i].campaign_id) : i \in 1..Len(rows)} |->
        LET last == CHOOSE i \in 1..Len(rows) :
                        /\ Str(rows[i].campaign_id) = k
                        /\ \A j \in (i + 1)..Len(rows) : Str(rows[j].campaign_id) # k
        IN FromMicros(rows[last].amount_micros)]

\* campaign_budgets.get(camp_id_str, 0)
BudgetGet(campaign_budgets, camp_id_str) ==
    IF camp_id_str \in DOMAIN campaign_budgets THEN campaign_budgets[camp_id_str] ELSE 0

StdRow(account_name, campaign_budgets, r) ==
    [account_name |-> account_name,
     campaign_id |-> PyStr(Str(r.campaign_id)),
     campaign_name |-> r.campaign_name,
     campaign_status |-> r.campaign_status,
     daily_budget |-> BudgetGet(campaign_budgets, Str(r.campaign_id)),
     ad_group_id |-> PyStr(Str(r.ad_group_id)),
     ad_group_name |-> r.ad_group_name,
     date |-> r.date,
     clicks |-> r.clicks,
     impressions |-> r.impressions,
     cost |-> FromMicros(r.cost_micros)]

StdConvRow(r) ==
    [campaign_id |-> PyStr(Str(r.campaign_id)),
     ad_group_id |-> PyStr(Str(r.ad_group_id)),
     date |-> r.date,
     conversion_name |-> r.conversion_action_name,
     conversions |-> r.conversions]

cols_zero == <<"clicks", "impressions", "cost", "conversions", "daily_budget">>

\* for col in cols: if col in df.columns: df[col] = df[col].fillna(value)
RECURSIVE FillNaEach(_, _, _)
FillNaEach(df, cols, value) ==
    IF cols = <<>> THEN df
    ELSE FillNaEach(IF Head(cols) \in df.columns THEN FillNa(df, Head(cols), value) ELSE df,
                    Tail(cols), value)

\* The standard-campaign part: the two frames the try block leaves behind,
\* combined.
FinalStd(account_name, std_df, conv_df) ==
    IF IsEmpty(std_df) /\ IsEmpty(conv_df) THEN EmptyFrame
    ELSE IF IsEmpty(std_df) THEN SetColumn(conv_df, "account_name", account_name)
    ELSE IF IsEmpty(conv_df) THEN std_df
    ELSE FillNa(Merge(std_df, conv_df, <<"campaign_id", "ad_group_id", "date">>),
                "account_name", account_name)

\* The tail of the function: concat with the automated campaigns, zero fill.
FinalDf(customer_id, final_std, final_pmax) ==
    LET final_df == Concat(final_std, final_pmax)
    IN  IF IsEmpty(final_df) THEN final_df
        ELSE FillNaEach(SetColumn(FillNaEach(final_df, cols_zero, 0),
                                  "customer_id", PyStr(customer_id)),
                        <<"campaign_status">>, "UNKNOWN")

get_all_campaign_data_for_account(customer_id, account_name, src) ==
    LET campaign_budgets == CampaignBudgets(src.budgets.rows)
        std_ok == src.std.err = "none"
        conv_ok == std_ok /\ src.std_conv.err = "none"
        std_df == IF std_ok
                  THEN DataFrame([i \in 1..Len(src.std.rows) |->
                                    StdRow(account_name, campaign_budgets, src.std.rows[i])])
                  ELSE EmptyFrame
        conv_df == IF conv_ok
                   THEN DataFrame([i \in 1..Len(src.std_conv.rows) |->
                                     StdConvRow(src.std_conv.rows[i])])
                   ELSE EmptyFrame
        std_log == IF \/ src.std.err = "GoogleAdsException"
                      \/ std_ok /\ src.std_conv.err = "GoogleAdsException"
                   THEN <<LogEntry("Standard Campaigns", customer_id)>>
                   ELSE <<>>
        pmax == load_pmax_data(customer_id, account_name, src.pmax, src.pmax_conv)
    IN  IF src.budgets.err = "Exception" THEN Raised(<<>>)
        ELSE IF src.std.err = "Exception" THEN Raised(<<>>)
        ELSE IF std_ok /\ src.std_conv.err = "Exception" THEN Raised(<<>>)
        ELSE IF pmax.raised THEN Raised(std_log \o pmax.log)
        ELSE Returned(FinalDf(customer_id, FinalStd(account_name, std_df, conv_df), pmax.df),
                      std_log \o pmax.log)

(***************************************************************************)
(* get_geo_data_for_account, get_search_query_data_for_account             *)
(***************************************************************************)
GeoRow(customer_id, account_name, r) ==
    [account_name |-> account_name,
     customer_id |-> PyStr(customer_id),
     campaign_id |-> PyInt(r.campaign_id),
     campaign_name |-> r.campaign_name,
     date |-> r.date,
     country_criterion_id |-> r.country_criterion_id,
     impressions |-> r.impressions,
     clicks |-> r.clicks,
     cost |-> FromMicros(r.cost_micros),
     conversions |-> r.conversions]

\* Variant: no handler around the query, whose error leaves the function.
get_geo_data_for_account_uncaught(customer_id, account_name, q) ==
    IF q.err # "none" THEN Raised(<<>>)
    ELSE Returned(DataFrame([i \in 1..Len(q.rows) |->
                               GeoRow(customer_id, account_name, q.rows[i])]), <<>>)

get_geo_data_for_account(customer_id, account_name, q) ==
    IF q.err = "Exception" THEN Raised(<<>>)
    ELSE IF q.err = "GoogleAdsException"
         THEN Returned(EmptyFrame, <<LogEntry("GEO", customer_id)>>)
    ELSE Returned(DataFrame([i \in 1..Len(q.rows) |->
                               GeoRow(customer_id, account_name, q.rows[i])]), <<>>)

SearchRow(customer_id, account_name, r) ==
    [account_name |-> account_name,
     customer_id |-> PyStr(customer_id),
     date |-> r.date,
     campaign_id |-> PyInt(r.campaign_id),
     campaign_name |-> r.campaign_name,
     ad_group_id |-> PyInt(r.ad_group_id),
     ad_group_name |-> r.ad_group_name,
     search_term |-> r.search_term,
     device |-> r.device,
     impressions |-> r.impressions,
     clicks |-> r.clicks,
     cost |-> FromMicros(r.cost_micros),
     conversions |-> r.conversions]

get_search_query_data_for_account(customer_id, account_name, q) ==
    IF q.err = "Exception" THEN Raised(<<>>)
    ELSE IF q.err = "GoogleAdsException"
         THEN Returned(EmptyFrame, <<LogEntry("Search Query", customer_id)>>)
    ELSE Returned(DataFrame([i \in 1..Len(q.rows) |->
                               SearchRow(customer_id, account_name, q.rows[i])]), <<>>)

(***************************************************************************)
(* process_one_account                                                     *)
(***************************************************************************)
\* The three sub-tasks in order; an exception of one ends the call and the
\* later ones are not run.  result is the returned dict.
process_one_account(account, src) ==
    LET camp == get_all_campaign_data_for_account(account.id, account.name, src)
        geo == get_geo_data_for_account(account.id, account.name, src.geo)
        search == get_search_query_data_for_account(account.id, account.name, src.search)
        Fail(printed) == [raised |-> TRUE, log |-> printed,
                      result |-> [name |-> account.name, camp |-> EmptyFrame,
                                  geo |-> EmptyFrame, search |-> EmptyFrame]]
    IN  IF camp.raised THEN Fail(camp.log)
        ELSE IF geo.raised THEN Fail(camp.log \o geo.log)
        ELSE IF search.raised THEN Fail(camp.log \o geo.log \o search.log)
        ELSE [raised |-> FALSE, log |-> camp.log \o geo.log \o search.log,
              result |-> [name |-> account.name, camp |-> camp.df,
                          geo |-> geo.df, search |-> search.df]]

(***************************************************************************)
(* stream_to_bigquery                                                      *)
(***************************************************************************)
\* dataframe[col] = dataframe[col].astype(str): an int cell is formatted, a
\* str cell is kept, a NaN cell becomes the string "nan".
AsTypeStr(df, col) ==
    [columns |-> df.columns,
     rows |-> [i \in 1..Len(df.rows) |->
                 [c \in (DOMAIN df.rows[i]) \cup {col} |->
                     IF c # col THEN df.rows[i][c]
                     ELSE IF col \in DOMAIN df.rows[i] THEN PyStrOf(df.rows[i][col])
                     ELSE PyStr("nan")]]]

\* The columns stream_to_bigquery converts to strings.
IdColumns == <<"campaign_id", "ad_group_id", "customer_id">>

RECURSIVE AsTypeStrEach(_, _)
AsTypeStrEach(df, cols) ==
    IF cols = <<>> THEN df
    ELSE AsTypeStrEach(IF Head(cols) \in df.columns THEN AsTypeStr(df, Head(cols)) ELSE df,
                       Tail(cols))

\* Variant: the flag is ignored and every load replaces the table.
WriteDisposition_replace_always(is_first_batch) == "WRITE_TRUNCATE"

WriteDisposition(is_first_batch) ==
    IF is_first_batch THEN "WRITE_TRUNCATE" ELSE "WRITE_APPEND"

\* Variant: the disposition does not reach the job, which appends.
LoadTable_append_only(table, dataframe, write_disposition) == Concat(table, dataframe)

\* The load job on the table: a job that succeeds replaces the contents or
\* appends to them (new columns allowed); a job that fails changes nothing.
LoadTable(table, dataframe, write_disposition) ==
    IF write_disposition = "WRITE_TRUNCATE" THEN dataframe
    ELSE Concat(table, dataframe)

\* table is the contents of table_id before the call and job_ok says whether
\* the load job ends without an exception.  attempted tells a call that
\* reached the load job from one that returned at once on an empty frame.
stream_to_bigquery(dataframe, table, table_id, is_first_batch, job_ok) ==
    LET payload == AsTypeStrEach(dataframe, IdColumns)
        write_disposition == WriteDisposition(is_first_batch)
    IN  IF IsEmpty(dataframe)
        THEN [success |-> FALSE, attempted |-> FALSE, table |-> table,
              write_disposition |-> write_disposition, log |-> <<>>]
        ELSE IF job_ok
        THEN [success |-> TRUE, attempted |-> TRUE,
              table |-> LoadTable(table, payload, write_disposition),
              write_disposition |-> write_disposition, log |-> <<>>]
        ELSE [success |-> FALSE, attempted |-> TRUE, table |-> table,
              write_disposition |-> write_disposition,
              log |-> <<LogEntry("BigQuery", table_id)>>]

(***************************************************************************)
(* get_active_client_accounts                                              *)
(***************************************************************************)
\* client_customer.split('/')[-1], the resource name being its segments.
LastSegment(resource_name) == resource_name[Len(resource_name)]

\* Variant: a list that takes every row, so a repeated account is kept twice.
RECURSIVE AllAccounts_keep_repeats(_, _)
AllAccounts_keep_repeats(rows, all_accounts) ==
    IF rows = <<>> THEN all_accounts
    ELSE AllAccounts_keep_repeats(Tail(rows),
            Append(all_accounts, [id |-> LastSegment(Head(rows).client_customer),
                                  name |-> Head(rows).descriptive_name]))

\* The all_accounts dict after the rows: a key keeps the position of its
\* first row and the name of its last row.
RECURSIVE AllAccounts(_, _)
AllAccounts(rows, all_accounts) ==
    IF rows = <<>> THEN all_accounts
    ELSE LET c_id == LastSegment(Head(rows).client_customer)
             c_name == Head(rows).descriptive_name
             seen == \E i \in 1..Len(all_accounts) : all_accounts[i].id = c_id
         IN AllAccounts(Tail(rows),
                IF seen
                THEN [i \in 1..Len(all_accounts) |->
                        IF all_accounts[i].id = c_id
                        THEN [id |-> c_id, name |-> c_name]
                        ELSE all_accounts[i]]
                ELSE Append(all_accounts, [id |-> c_id, name |-> c_name]))

\* Variant: the handler prints and falls through to the return, so the run
\* goes on with the accounts read before the error.
get_active_client_accounts_no_exit(mcc_id, response) ==
    IF response.err = "GoogleAdsException"
    THEN [exit |-> FALSE, raised |-> FALSE,
          accounts |-> AllAccounts(response.rows, <<>>),
          log |-> <<LogEntry("client search", mcc_id)>>]
    ELSE IF response.err = "Exception"
    THEN [exit |-> FALSE, raised |-> TRUE, accounts |-> <<>>, log |-> <<>>]
    ELSE [exit |-> FALSE, raised |-> FALSE,
          accounts |-> AllAccounts(response.rows, <<>>), log |-> <<>>]

\* exit is the sys.exit(1) of the GoogleAdsException handler; raised is any
\* other exception, which nothing catches.
get_active_client_accounts(mcc_id, response) ==
    IF response.err = "GoogleAdsException"
    THEN [exit |-> TRUE, raised |-> FALSE, accounts |-> <<>>,
          log |-> <<LogEntry("client search", mcc_id)>>]
    ELSE IF response.err = "Exception"
    THEN [exit |-> FALSE, raised |-> TRUE, accounts |-> <<>>, log |-> <<>>]
    ELSE [exit |-> FALSE, raised |-> FALSE,
          accounts |-> AllAccounts(response.rows, <<>>), log |-> <<>>]

(***************************************************************************)
(* Inputs of the model: what the source answers and what the tables hold   *)
(* before the run.                                                         *)
(***************************************************************************)
BudgetSample(c) == [campaign_id |-> c, amount_micros |-> 3 * MICROS]

StdSample(c, d) ==
    [campaign_id |-> c, campaign_name |-> "search", campaign_status |-> "ENABLED",
     ad_group_id |-> 7, ad_group_name |-> "brand", date |-> d,
     clicks |-> 5, impressions |-> 50, cost_micros |-> 2 * MICROS]

StdConvSample(c, d, action) ==
    [campaign_id |-> c, ad_group_id |-> 7, date |-> d,
     conversion_action_name |-> action, conversions |-> 1]

PmaxSample(c, d) ==
    [campaign_id |-> c, campaign_name |-> "pmax", campaign_status |-> "PAUSED",
     amount_micros |-> 4 * MICROS, date |-> d,
     clicks |-> 6, impressions |-> 60, cost_micros |-> 1500000]

PmaxConvSample(c, d, action) ==
    [campaign_id |-> c, date |-> d, conversion_action_name |-> action, conversions |-> 2]

GeoSample(c) ==
    [campaign_id |-> c, campaign_name |-> "search", date |-> Dates[1],
     country_criterion_id |-> 2616, impressions |-> 50, clicks |-> 5,
     cost_micros |-> 999999, conversions |-> 1]

SearchSample(c) ==
    [date |-> Dates[1], campaign_id |-> c, campaign_name |-> "search",
     ad_group_id |-> 7, ad_group_name |-> "brand", search_term |-> "shoes",
     device |-> "MOBILE", impressions |-> 50, clicks |-> 5,
     cost_micros |-> 2 * MICROS, conversions |-> 1]

\* What the source answers to the queries of one account, by case.
PlanNames == {"rows", "geo_error", "quiet", "crash"}

SourcePlan(plan) ==
    LET full == [budgets |-> Ok(<<BudgetSample(1)>>),
                 std |-> Ok(<<StdSample(1, Dates[1])>>),
                 std_conv |-> Ok(<<StdConvSample(1, Dates[1], "lead")>>),
                 pmax |-> Ok(<<>>),
                 pmax_conv |-> Ok(<<>>),
                 geo |-> Ok(<<GeoSample(1)>>),
                 search |-> Ok(<<SearchSample(1)>>)]
        none == [budgets |-> Ok(<<>>), std |-> Ok(<<>>), std_conv |-> Ok(<<>>),
                 pmax |-> Ok(<<>>), pmax_conv |-> Ok(<<>>),
                 geo |-> Ok(<<>>), search |-> Ok(<<>>)]
    IN  CASE plan = "rows" -> full
          [] plan = "geo_error" -> [full EXCEPT !.geo = GoogleAdsError(<<>>)]
          [] plan = "quiet" -> none
          [] plan = "crash" -> [full EXCEPT !.pmax = GoogleAdsError(<<>>),
                                           !.geo = GoogleAdsError(<<>>),
                                           !.search = OtherError]

\* The customer_client rows of a manager account with n child accounts: one
\* row per account and, when there are two or more, a second row of the
\* first account under another name after the row of the second.
ClientRow(i, name) ==
    [client_customer |-> <<"customers", Str(i)>>, descriptive_name |-> name]

ClientRows(n) ==
    IF n < 2 THEN [i \in 1..n |-> ClientRow(i, "name")]
    ELSE <<ClientRow(1, "name"), ClientRow(2, "name"), ClientRow(1, "renamed")>>
         \o [i \in 1..(n - 2) |-> ClientRow(i + 2, "name")]

DiscoveryResponses ==
    {[rows |-> ClientRows(n), err |-> e] :
        n \in 0..NumAccounts, e \in {"none", "GoogleAdsException", "Exception"}}

\* What a table holds before the run: a row of an earlier run.
PreviousRun ==
    DataFrame(<<[account_name |-> "previous", customer_id |-> PyStr("0")]>>)

(***************************************************************************)
(* The run (__main__).                                                     *)
(***************************************************************************)
\* The result keys of process_one_account in the order the driver writes
\* them: camp -> tbl_main / first_run_main, geo -> tbl_geo / first_run_geo,
\* search -> tbl_search / first_run_search.
Tables == <<"camp", "geo", "search">>

TableSet == SeqToSet(Tables)

\* ThreadPoolExecutor(max_workers=10)
max_workers == 10

mcc_id == "manager"

VARIABLES
    pc,            \* where the driver is: setup, discovery, submit, as_completed
                   \* (at the head of the loop), camp / geo / search (in the
                   \* load of that RecordSet of the future taken last), exited
    exit_code,     \* the exit status of the process, -1 while it runs
    response,      \* what the source answers to the discovery query
    accounts_list, \* the list get_active_client_accounts returned
    futures,       \* futures[i] is the future of accounts_list[i], once submitted
    finish_order,  \* the futures in the order in which they finished
    snapshot,      \* as_completed: the futures found finished when it started,
                   \* less those already yielded
    consumed,      \* the futures the driver's loop has taken, in order
    first_run,     \* first_run_main / first_run_geo / first_run_search
    tables,        \* the contents of the three tables
    write_log,     \* every load job the driver has issued, in order
    log,           \* the error lines printed so far
    x_in,          \* a sub-task called on its own: which one, and the source's answers
    x_out          \* a sub-task called on its own: what it returned

vars == <<pc, exit_code, response, accounts_list, futures, finish_order, snapshot,
          consumed, first_run, tables, write_log, log, x_in, x_out>>

run_vars == <<pc, exit_code, response, accounts_list, futures, finish_order, snapshot,
              consumed, first_run, tables, write_log, log>>

NotRun == [raised |-> FALSE, df |-> EmptyFrame, log |-> <<>>, done |-> FALSE]

NoInput == [kind |-> "none"]

InitRun ==
    /\ pc = "setup"
    /\ exit_code = -1
    /\ accounts_list = <<>>
    /\ futures = <<>>
    /\ finish_order = <<>>
    /\ snapshot = {}
    /\ consumed = <<>>
    /\ first_run = [t \in TableSet |-> TRUE]
    /\ tables = [t \in TableSet |-> PreviousRun]
    /\ write_log = <<>>
    /\ log = <<>>

Init ==
    /\ InitRun
    /\ response \in DiscoveryResponses
    /\ x_in = NoInput
    /\ x_out = NotRun

\* The key file check and the client initialisation: either fails with exit 1.
Setup ==
    /\ pc = "setup"
    /\ \E outcome \in {"ok", "key_file_missing", "client_error"} :
          IF outcome = "ok"
          THEN /\ pc' = "discovery"
               /\ UNCHANGED <<exit_code, log>>
          ELSE /\ pc' = "exited"
               /\ exit_code' = 1
               /\ log' = Append(log, LogEntry(outcome, ""))
    /\ UNCHANGED <<response, accounts_list, futures, finish_order, snapshot, consumed,
                   first_run, tables, write_log, x_in, x_out>>

\* accounts_list = get_active_client_accounts(...), then the three flags.
Discovery ==
    /\ pc = "discovery"
    /\ LET got == get_active_client_accounts(mcc_id, response)
       IN  /\ log' = log \o got.log
           /\ IF got.exit \/ got.raised
              THEN /\ pc' = "exited"
                   /\ exit_code' = 1
                   /\ UNCHANGED <<accounts_list, first_run>>
              ELSE /\ pc' = "submit"
                   /\ accounts_list' = got.accounts
                   /\ first_run' = [t \in TableSet |-> TRUE]
                   /\ UNCHANGED exit_code
    /\ UNCHANGED <<response, futures, finish_order, snapshot, consumed,
                   tables, write_log, x_in, x_out>>

\* plan is what the source answers to the queries of the account, once the
\* run of the work item has shown it; printed counts the error lines the work
\* item has printed.
NewFuture == [state |-> "pending", raised |-> FALSE, plan |-> "", printed |-> 0,
              result |-> [name |-> "", camp |-> EmptyFrame, geo |-> EmptyFrame,
                          search |-> EmptyFrame]]

\* executor.submit(process_one_account, ..., acc, ...) for the next account
\* of accounts_list (one step of the dict comprehension).
Submit ==
    /\ pc = "submit"
    /\ Len(futures) < Len(accounts_list)
    /\ futures' = Append(futures, NewFuture)
    /\ UNCHANGED <<pc, exit_code, response, accounts_list, finish_order, snapshot,
                   consumed, first_run, tables, write_log, log, x_in, x_out>>

Running == {i \in 1..Len(futures) : futures[i].state = "running"}
Pending == {i \in 1..Len(futures) : futures[i].state = "pending"}
Finished == {i \in 1..Len(futures) : futures[i].state = "finished"}

\* Variant: a pool that starts a thread for every work item.
WorkerStart_unbounded(i) ==
    /\ i \in Pending
    /\ \A j \in Pending : i <= j
    /\ futures' = [futures EXCEPT ![i].state = "running"]
    /\ UNCHANGED <<pc, exit_code, response, accounts_list, finish_order, snapshot,
                   consumed, first_run, tables, write_log, log, x_in, x_out>>

\* A pool thread takes the oldest queued work item; the pool has at most
\* max_workers threads.
WorkerStart(i) ==
    /\ i \in Pending
    /\ \A j \in Pending : i <= j
    /\ Cardinality(Running) < max_workers
    /\ futures' = [futures EXCEPT ![i].state = "running"]
    /\ UNCHANGED <<pc, exit_code, response, accounts_list, finish_order, snapshot,
                   consumed, first_run, tables, write_log, log, x_in, x_out>>

\* The accounts a discovery response of the model can name.
KnownAccounts ==
    {[id |-> Str(n), name |-> name] :
        n \in 1..(max_workers + ExtraAccounts), name \in {"name", "renamed"}}

\* What process_one_account does for each account against each answer of the
\* source: the function is pure in its arguments, so its outcomes are
\* tabulated once.
ProcessOneAccountOutcomes ==
    {[account |-> account, plan |-> plan,
      done |-> process_one_account(account, SourcePlan(plan))] :
        account \in KnownAccounts, plan \in PlanNames}

ProcessOneAccount(account, plan) ==
    (CHOOSE o \in ProcessOneAccountOutcomes : o.account = account /\ o.plan = plan).done

\* The driver reaches the for loop: as_completed notes the futures that have
\* finished already.
StartLoop ==
    /\ pc = "submit"
    /\ Len(futures) = Len(accounts_list)
    /\ pc' = "as_completed"
    /\ snapshot' = Finished
    /\ UNCHANGED <<exit_code, response, accounts_list, futures, finish_order,
                   consumed, first_run, tables, write_log, log, x_in, x_out>>

\* Variant: only the futures found finished at the start are yielded, and
\* one that finishes later is never handed to the loop.
NextCompleted_snapshot_only == snapshot

\* Variant: the finished futures are yielded in the order of their submission.
NextCompleted_submission_order ==
    LET ready == Finished \ SeqToSet(consumed)
    IN  {i \in ready : \A j \in ready : i <= j}

\* The futures as_completed can yield next: any of those it found finished
\* at the start; after them, the others in the order in which they finish.
NextCompleted ==
    LET taken == SeqToSet(consumed)
        late == SelectSeq(finish_order, LAMBDA i : i \notin snapshot /\ i \notin taken)
    IN  IF snapshot # {} THEN snapshot
        ELSE IF late # <<>> THEN {Head(late)}
        ELSE {}

\* Variant: the flag of the table is cleared after a load that failed too.
WriteOne_clear_on_failure(st, key, account_id, dataframe, job_ok) ==
    IF IsEmpty(dataframe) THEN st
    ELSE LET w == stream_to_bigquery(dataframe, st.tables[key], key,
                                     st.first_run[key], job_ok)
         IN [first_run |-> [st.first_run EXCEPT ![key] = FALSE],
             tables |-> [st.tables EXCEPT ![key] = w.table],
             write_log |-> Append(st.write_log,
                                  [table |-> key, account |-> account_id,
                                   write_disposition |-> w.write_disposition,
                                   success |-> w.success]),
             log |-> st.log \o w.log]

\* Variant: a load that failed is issued a second time.
WriteOne_retry_once(st, key, account_id, dataframe, job_ok) ==
    IF IsEmpty(dataframe) THEN st
    ELSE LET w == stream_to_bigquery(dataframe, st.tables[key], key,
                                     st.first_run[key], job_ok)
             entry == [table |-> key, account |-> account_id,
                       write_disposition |-> w.write_disposition,
                       success |-> w.success]
         IN [first_run |-> IF w.success /\ st.first_run[key]
                           THEN [st.first_run EXCEPT ![key] = FALSE]
                           ELSE st.first_run,
             tables |-> [st.tables EXCEPT ![key] = w.table],
             write_log |-> IF w.success THEN Append(st.write_log, entry)
                           ELSE st.write_log \o <<entry, entry>>,
             log |-> st.log \o w.log \o w.log]

\* One load of the loop body: the write of result[key] if it is not empty,
\* and the flag of the table.  st is [first_run, tables, write_log, log].
WriteOne(st, key, account_id, dataframe, job_ok) ==
    IF IsEmpty(dataframe) THEN st
    ELSE LET w == stream_to_bigquery(dataframe, st.tables[key], key,
                                     st.first_run[key], job_ok)
         IN [first_run |-> IF w.success /\ st.first_run[key]
                           THEN [st.first_run EXCEPT ![key] = FALSE]
                           ELSE st.first_run,
             tables |-> [st.tables EXCEPT ![key] = w.table],
             write_log |-> Append(st.write_log,
                                  [table |-> key, account |-> account_id,
                                   write_disposition |-> w.write_disposition,
                                   success |-> w.success]),
             log |-> st.log \o w.log]

\* Variant: the pool thread loads its campaign RecordSet into the table
\* before it returns, reading and clearing the flag itself.
WorkerFinish_writes(i) ==
    /\ i \in Running
    /\ \E plan \in PlanNames :
          LET done == ProcessOneAccount(accounts_list[i], plan)
              st == WriteOne([first_run |-> first_run, tables |-> tables,
                              write_log |-> write_log, log |-> log],
                             "camp", accounts_list[i].id, done.result["camp"], TRUE)
          IN  /\ futures[i].plan \in {"", plan}
              /\ futures[i].printed = Len(done.log)
              /\ futures' = [futures EXCEPT ![i] =
                                [state |-> "finished", raised |-> done.raised,
                                 plan |-> plan, printed |-> futures[i].printed,
                                 result |-> done.result]]
              /\ first_run' = st.first_run
              /\ tables' = st.tables
              /\ write_log' = st.write_log
              /\ log' = st.log
    /\ finish_order' = Append(finish_order, i)
    /\ UNCHANGED <<pc, exit_code, response, accounts_list, snapshot, consumed, x_in, x_out>>

\* A sub-task of the work item meets a source error and prints its line
\* (_handle_google_ads_exception); the work item then goes on.  The lines of
\* a work item are printed one at a time, while the other threads run.
WorkerPrint(i) ==
    /\ i \in Running
    /\ \E plan \in PlanNames :
          LET done == ProcessOneAccount(accounts_list[i], plan)
          IN  /\ futures[i].plan \in {"", plan}
              /\ futures[i].printed < Len(done.log)
              /\ log' = Append(log, done.log[futures[i].printed + 1])
              /\ futures' = [futures EXCEPT ![i].plan = plan, ![i].printed = @ + 1]
    /\ UNCHANGED <<pc, exit_code, response, accounts_list, finish_order, snapshot,
                   consumed, first_run, tables, write_log, x_in, x_out>>

\* process_one_account returns or raises, after the lines of its sub-tasks
\* have been printed, against whatever the source answers for that account.
WorkerFinish(i) ==
    /\ i \in Running
    /\ \E plan \in PlanNames :
          LET done == ProcessOneAccount(accounts_list[i], plan)
          IN  /\ futures[i].plan \in {"", plan}
              /\ futures[i].printed = Len(done.log)
              /\ futures' = [futures EXCEPT ![i] =
                                [state |-> "finished", raised |-> done.raised,
                                 plan |-> plan, printed |-> futures[i].printed,
                                 result |-> done.result]]
    /\ finish_order' = Append(finish_order, i)
    /\ UNCHANGED <<pc, exit_code, response, accounts_list, snapshot,
                   consumed, first_run, tables, write_log, log, x_in, x_out>>

\* Where the loop body goes next: to the load of the first RecordSet of keys
\* that is not empty, and back to the head of the loop when there is none.
RECURSIVE NextLoad(_, _)
NextLoad(result, keys) ==
    IF keys = <<>> THEN "as_completed"
    ELSE IF ~IsEmpty(result[Head(keys)]) THEN Head(keys)
    ELSE NextLoad(result, Tail(keys))

\* The loop body enters the load at position to: stream_to_bigquery gets the
\* RecordSet that the result of future i holds and converts its id columns in
\* that very object, before it issues the job and waits for it.  At the head
\* of the loop nothing is entered.
EnterLoad(fs, i, to) ==
    IF to \in TableSet
    THEN [fs EXCEPT ![i].result[to] = AsTypeStrEach(@, IdColumns)]
    ELSE fs

\* The keys the loop body handles after key.
KeysAfter(key) ==
    LET k == CHOOSE j \in 1..Len(Tables) : Tables[j] = key
    IN  SubSeq(Tables, k + 1, Len(Tables))

\* Variant: no handler around future.result(), so the exception of an account
\* ends the run.
Consume_uncaught(i) ==
    /\ pc = "as_completed"
    /\ i \in NextCompleted
    /\ consumed' = Append(consumed, i)
    /\ snapshot' = snapshot \ {i}
    /\ IF futures[i].raised
       THEN /\ log' = Append(log, LogEntry("thread", ""))
            /\ pc' = "exited"
            /\ exit_code' = 1
       ELSE /\ pc' = NextLoad(futures[i].result, Tables)
            /\ UNCHANGED <<log, exit_code>>
    /\ futures' = EnterLoad(futures, i, pc')
    /\ UNCHANGED <<response, accounts_list, finish_order,
                   first_run, tables, write_log, x_in, x_out>>

\* as_completed yields a future and the loop body calls future.result(): the
\* exception of the extraction is printed and the iteration is over, a result
\* takes the loop body to the first of its loads, up to the wait for the job.
Consume(i) ==
    /\ pc = "as_completed"
    /\ i \in NextCompleted
    /\ consumed' = Append(consumed, i)
    /\ snapshot' = snapshot \ {i}
    /\ IF futures[i].raised
       THEN /\ log' = Append(log, LogEntry("thread", ""))
            /\ pc' = "as_completed"
       ELSE /\ pc' = NextLoad(futures[i].result, Tables)
            /\ log' = log
    /\ futures' = EnterLoad(futures, i, pc')
    /\ UNCHANGED <<exit_code, response, accounts_list, finish_order,
                   first_run, tables, write_log, x_in, x_out>>

\* Variant: a load that fails ends the iteration, and the later loads of the
\* account are not issued.
Load_stop_at_failure(key) ==
    /\ pc = key
    /\ LET i == consumed[Len(consumed)]
       IN  \E job_ok \in BOOLEAN :
              LET st == WriteOne([first_run |-> first_run, tables |-> tables,
                                  write_log |-> write_log, log |-> log],
                                 key, accounts_list[i].id, futures[i].result[key], job_ok)
              IN  /\ first_run' = st.first_run
                  /\ tables' = st.tables
                  /\ write_log' = st.write_log
                  /\ log' = st.log
                  /\ pc' = (IF job_ok THEN NextLoad(futures[i].result, KeysAfter(key))
                            ELSE "as_completed")
                  /\ futures' = EnterLoad(futures, i, pc')
    /\ UNCHANGED <<exit_code, response, accounts_list, finish_order, snapshot,
                   consumed, x_in, x_out>>

\* One load of the loop body, from the wait for the job in stream_to_bigquery,
\* in which the pool threads run, to the statement that clears the flag; the
\* loop body then goes to its next load, up to the wait for that job.
Load(key) ==
    /\ pc = key
    /\ LET i == consumed[Len(consumed)]
       IN  \E job_ok \in BOOLEAN :
              LET st == WriteOne([first_run |-> first_run, tables |-> tables,
                                  write_log |-> write_log, log |-> log],
                                 key, accounts_list[i].id, futures[i].result[key], job_ok)
              IN  /\ first_run' = st.first_run
                  /\ tables' = st.tables
                  /\ write_log' = st.write_log
                  /\ log' = st.log
                  /\ pc' = NextLoad(futures[i].result, KeysAfter(key))
                  /\ futures' = EnterLoad(futures, i, pc')
    /\ UNCHANGED <<exit_code, response, accounts_list, finish_order, snapshot,
                   consumed, x_in, x_out>>

\* Variant: the exit status tells whether an error line was printed.
Finish_status_from_errors ==
    /\ pc = "as_completed"
    /\ Len(consumed) = Len(futures)
    /\ pc' = "exited"
    /\ exit_code' = (IF log = <<>> THEN 0 ELSE 1)
    /\ UNCHANGED <<response, accounts_list, futures, finish_order, snapshot,
                   consumed, first_run, tables, write_log, log, x_in, x_out>>

\* Every future has been yielded: the with block ends and the script with it.
Finish ==
    /\ pc = "as_completed"
    /\ Len(consumed) = Len(futures)
    /\ pc' = "exited"
    /\ exit_code' = 0
    /\ UNCHANGED <<response, accounts_list, futures, finish_order, snapshot,
                   consumed, first_run, tables, write_log, log, x_in, x_out>>

Next ==
    \/ Setup
    \/ Discovery
    \/ Submit
    \/ \E i \in 1..Len(futures) : WorkerStart(i)
    \/ \E i \in 1..Len(futures) : WorkerPrint(i)
    \/ \E i \in 1..Len(futures) : WorkerFinish(i)
    \/ StartLoop
    \/ \E i \in 1..Len(futures) : Consume(i)
    \/ \E key \in TableSet : Load(key)
    \/ Finish

Spec == Init /\ [][Next]_vars

\* The main thread: the statements of __main__ in program order.
Driver ==
    \/ Setup
    \/ Discovery
    \/ Submit
    \/ StartLoop
    \/ \E i \in 1..Len(futures) : Consume(i)
    \/ \E key \in TableSet : Load(key)
    \/ Finish

\* The work item of future i: a pool thread picks it up and runs it to its end.
Worker(i) == WorkerStart(i) \/ WorkerPrint(i) \/ WorkerFinish(i)

\* The scheduling of the run: the main thread goes on with its next statement
\* (every load job it issues returns), and every submitted work item is
\* picked up and returns or raises.
Fairness ==
    /\ WF_vars(Driver)
    /\ \A i \in 1..NumAccounts : WF_vars(Worker(i))

FairSpec == Init /\ [][Next]_vars /\ Fairness

\* The run of a manager account with three child accounts, A, B and C, whose
\* discovery succeeds.
InitThreeAccounts ==
    /\ InitRun
    /\ response = [rows |-> ClientRows(3), err |-> "none"]
    /\ x_in = NoInput
    /\ x_out = NotRun

\* What the source answers in that run: the geography query of B raises a
\* source error, every other query of A, B and C returns its rows.
ThreeAccountsAnswers ==
    \A i \in 1..Len(futures) :
        futures[i].plan \in {"", IF i = 2 THEN "geo_error" ELSE "rows"}

NextThreeAccounts == Next /\ ThreeAccountsAnswers'

SpecThreeAccounts == InitThreeAccounts /\ [][NextThreeAccounts]_vars

\* The run of a manager account with more child accounts than the pool has
\* threads, in which no account has data.  The extractions finish in any
\* order and the loop takes them as as_completed yields them; the run is
\* followed until MaxFinished extractions have finished.
PoolScenario ==
    /\ \A i \in 1..Len(futures) : futures[i].plan \in {"", "quiet"}
    /\ Len(finish_order) <= MaxFinished

InitPool ==
    /\ InitRun
    /\ response = [rows |-> ClientRows(max_workers + ExtraAccounts), err |-> "none"]
    /\ x_in = NoInput
    /\ x_out = NotRun

NextPool == Next /\ PoolScenario'

SpecPool == InitPool /\ [][NextPool]_vars

(***************************************************************************)
(* Properties of the run.                                                  *)
(***************************************************************************)
\* The load jobs issued so far on table t, as positions of write_log.
WritesTo(t) == {k \in 1..Len(write_log) : write_log[k].table = t}

SucceededTo(t) == {k \in WritesTo(t) : write_log[k].success}

FailedTo(t) == {k \in WritesTo(t) : ~write_log[k].success}

\* WriteState of a table: "written" is the cleared first_run flag.
Written(t) == ~first_run[t]

\* C1: the WriteState of each of the three tables is "written" exactly when
\* a load job on that table has returned success in this run, and a table
\* that is "written" in a state is "written" in the next state.
C1_WriteStateIffSuccess ==
    /\ [](\A t \in TableSet : Written(t) <=> SucceededTo(t) # {})
    /\ [][\A t \in TableSet : Written(t) => ~first_run'[t]]_vars

\* C1 witness: one table is written while another, whose only load so far has
\* failed, is not, and a batch of a third kind was empty and never written.
C1_Witness ==
    \E t1, t2 \in TableSet :
        /\ Written(t1)
        /\ ~Written(t2)
        /\ FailedTo(t2) # {}
        /\ \E i \in SeqToSet(consumed) :
              ~futures[i].raised /\ IsEmpty(futures[i].result["geo"])

\* C2: every load job uses the replace disposition exactly when no earlier
\* load job on the same table has succeeded, and the append disposition
\* otherwise.
C2_ReplaceUntilFirstSuccess ==
    \A k \in 1..Len(write_log) :
        LET earlier == {j \in SucceededTo(write_log[k].table) : j < k}
        IN  write_log[k].write_disposition =
                (IF earlier = {} THEN "WRITE_TRUNCATE" ELSE "WRITE_APPEND")

\* C2 witness: on one table a replace that failed and then a replace that
\* succeeded; on another a replace that succeeded and then an append.
C2_Witness ==
    \E t, u \in TableSet : \E i, j \in WritesTo(t) : \E k, l \in WritesTo(u) :
        /\ i < j
        /\ write_log[i].write_disposition = "WRITE_TRUNCATE" /\ ~write_log[i].success
        /\ write_log[j].write_disposition = "WRITE_TRUNCATE" /\ write_log[j].success
        /\ k < l
        /\ write_log[k].write_disposition = "WRITE_TRUNCATE" /\ write_log[k].success
        /\ write_log[l].write_disposition = "WRITE_APPEND"

\* The futures whose extraction raised, and those the driver has taken.
RaisedFutures == {i \in 1..Len(futures) : futures[i].raised}

Taken == SeqToSet(consumed)

ThreadReports == {k \in 1..Len(log) : log[k].context = "thread"}

\* The load jobs issued for the RecordSet of future i destined for table t.
WritesOf(i, t) ==
    {k \in WritesTo(t) : write_log[k].account = accounts_list[i].id}

\* The loop body has gone past the load of the RecordSet of future i for
\* table t: it took i, and it is not in a load of i for t or for a table the
\* body handles before t.
Passed(i, t) ==
    /\ i \in Taken
    /\ pc \in TableSet /\ i = consumed[Len(consumed)] => t \notin SeqToSet(KeysAfter(pc)) \cup {pc}

\* C3: the driver reports as failed exactly the results it has taken whose
\* extraction raised and issues no load for them; a run that dispatched
\* extractions ends only after taking all N results once each, with one load
\* issued for every non-empty RecordSet of the accounts that did not raise.
C3_FailuresIsolated ==
    /\ Cardinality(ThreadReports) = Cardinality(Taken \cap RaisedFutures)
    /\ \A i \in RaisedFutures : \A t \in TableSet : WritesOf(i, t) = {}
    /\ pc = "exited" /\ futures # <<>> =>
          /\ Len(consumed) = Len(accounts_list)
          /\ Taken = 1..Len(accounts_list)
          /\ \A i \in Taken \ RaisedFutures : \A t \in TableSet :
                Cardinality(WritesOf(i, t)) =
                    (IF IsEmpty(futures[i].result[t]) THEN 0 ELSE 1)

\* C3 witness: a finished run of two accounts; the extraction of the one
\* taken first raised, and the three RecordSets of the other were routed to
\* the sink after it.
C3_Witness ==
    /\ pc = "exited"
    /\ Len(accounts_list) = 2
    /\ Cardinality(RaisedFutures) = 1
    /\ Cardinality(ThreadReports) = 1
    /\ futures[consumed[1]].raised
    /\ ~futures[consumed[2]].raised
    /\ Len(write_log) = 3

\* The account ids among the rows the discovery query returned.
DiscoveredIds ==
    {LastSegment(response.rows[k].client_customer) : k \in 1..Len(response.rows)}

\* The extractions submitted to the pool for an account id.
Dispatched(id) == {i \in 1..Len(futures) : accounts_list[i].id = id}

\* C4: an account id returned by discovery never has more than one
\* extraction submitted, and has exactly one once the driver waits for
\* results; a submitted extraction finishes at most once.
C4_OneExtractionPerAccount ==
    /\ \A id \in DiscoveredIds : Cardinality(Dispatched(id)) <= 1
    /\ pc = "as_completed" \/ (pc = "exited" /\ exit_code = 0) =>
          \A id \in DiscoveredIds : Cardinality(Dispatched(id)) = 1
    /\ \A j, k \in 1..Len(finish_order) : finish_order[j] = finish_order[k] => j = k

\* C4 witness: the driver waits for results after a discovery that returned
\* one account in two rows.
C4_Witness ==
    /\ pc = "as_completed"
    /\ Cardinality(DiscoveredIds) < Len(response.rows)
    /\ Cardinality(DiscoveredIds) = 2
    /\ Len(futures) = 2

UntouchedSink ==
    /\ write_log = <<>>
    /\ \A t \in TableSet : first_run[t] /\ tables[t] = PreviousRun

\* C5: when the discovery query raises a source error, no extraction is ever
\* submitted and no load is ever issued (the tables and the flags are as
\* before the run), and the run ends with exit code 1.
C5_DiscoveryErrorIsFatal ==
    response.err = "GoogleAdsException" =>
        /\ futures = <<>>
        /\ accounts_list = <<>>
        /\ UntouchedSink
        /\ pc = "exited" => exit_code = 1

\* C5 witness: the discovery query was issued, returned rows and then raised,
\* and the run has ended.
C5_Witness ==
    /\ response.err = "GoogleAdsException"
    /\ response.rows # <<>>
    /\ pc = "exited"
    /\ \E k \in 1..Len(log) : log[k].context = "client search"

\* The rows of table t that carry the customer id of future i.
TableRowsOf(i, t) ==
    {k \in 1..Len(tables[t].rows) :
        /\ "customer_id" \in DOMAIN tables[t].rows[k]
        /\ tables[t].rows[k]["customer_id"] = PyStr(accounts_list[i].id)}

Dispositions(t) ==
    [k \in 1..Cardinality(WritesTo(t)) |->
        LET pos == CHOOSE p \in WritesTo(t) :
                      Cardinality({q \in WritesTo(t) : q <= p}) = k
        IN write_log[pos].write_disposition]

\* The scenario of C6: three accounts, the geography query of the second
\* raises a source error, every other query returns data, no load fails.
C6_Scenario ==
    /\ pc = "exited"
    /\ Len(accounts_list) = 3
    /\ Len(futures) = 3
    /\ futures[1].plan = "rows"
    /\ futures[2].plan = "geo_error"
    /\ futures[3].plan = "rows"
    /\ \A k \in 1..Len(write_log) : write_log[k].success

\* C6: at the end of that scenario, in every completion order, the campaign
\* and the search table hold the rows of the three accounts and nothing else,
\* loaded by one replace and two appends; the geography table holds the rows
\* of the first and the third account only, loaded by one replace and one
\* append; and the exit code is 0.
C6_ThreeAccountsOneGeoError ==
    C6_Scenario =>
        /\ exit_code = 0
        /\ Dispositions("camp") = <<"WRITE_TRUNCATE", "WRITE_APPEND", "WRITE_APPEND">>
        /\ Dispositions("search") = <<"WRITE_TRUNCATE", "WRITE_APPEND", "WRITE_APPEND">>
        /\ Dispositions("geo") = <<"WRITE_TRUNCATE", "WRITE_APPEND">>
        /\ \A t \in {"camp", "search"} :
              /\ \A i \in 1..3 :
                    Cardinality(TableRowsOf(i, t)) = Len(futures[i].result[t].rows)
              /\ Len(tables[t].rows) = SeqSum([i \in 1..3 |-> Len(futures[i].result[t].rows)])
              /\ \A i \in 1..3 : futures[i].result[t].rows # <<>>
        /\ WritesOf(2, "geo") = {}
        /\ TableRowsOf(2, "geo") = {}
        /\ \A i \in {1, 3} : /\ TableRowsOf(i, "geo") # {}
                             /\ Cardinality(TableRowsOf(i, "geo")) =
                                    Len(futures[i].result["geo"].rows)
        /\ Len(tables["geo"].rows) =
              Len(futures[1].result["geo"].rows) + Len(futures[3].result["geo"].rows)

\* C6 witness: the scenario, with the third account taken first and the
\* second before the first.
C6_Witness ==
    /\ C6_Scenario
    /\ consumed = <<3, 2, 1>>
    /\ \E k \in 1..Len(log) : log[k].context = "GEO"

\* C9: a load that fails changes neither its table nor any flag, and every
\* table's flag after a load depends on the loads of that table alone; the
\* loop goes on: every non-empty RecordSet of every account taken whose
\* extraction returned has its load issued once the loop body has gone past
\* it, whatever failed before, and the run ends only after every account was
\* taken.
C9_WriteFailureIsLocal ==
    /\ [](\A i \in Taken \ RaisedFutures : \A t \in TableSet :
             Passed(i, t) /\ ~IsEmpty(futures[i].result[t]) => WritesOf(i, t) # {})
    /\ [](pc = "exited" /\ futures # <<>> => Taken = 1..Len(accounts_list))
    /\ [][\A t \in TableSet :
             LET new == {k \in 1..Len(write_log') :
                            k > Len(write_log) /\ write_log'[k].table = t}
             IN  IF \E k \in new : write_log'[k].success
                 THEN ~first_run'[t]
                 ELSE first_run'[t] = first_run[t] /\ tables'[t] = tables[t]]_vars

\* C9 witness: the campaign load of an account failed, its geography load
\* then succeeded, and the campaign load of an account taken later succeeded
\* as a replace.
C9_Witness ==
    \E a, b, c \in 1..Len(write_log) :
        /\ a < b /\ b < c
        /\ write_log[a].table = "camp" /\ ~write_log[a].success
        /\ write_log[b].table = "geo" /\ write_log[b].success
        /\ write_log[b].account = write_log[a].account
        /\ write_log[c].table = "camp" /\ write_log[c].success
        /\ write_log[c].account # write_log[a].account
        /\ write_log[c].write_disposition = "WRITE_TRUNCATE"

SetupFailed ==
    \E k \in 1..Len(log) : log[k].context \in {"key_file_missing", "client_error"}

\* C10: a run that has ended has exit code 1 when the setup or the discovery
\* failed and exit code 0 otherwise, whatever failed after the discovery.
C10_ExitCode ==
    pc = "exited" =>
        exit_code = (IF SetupFailed \/ response.err # "none" THEN 1 ELSE 0)

\* C10 witness: a run that ended with exit code 0 after an extraction raised,
\* a sub-task met a source error and a load failed.
C10_Witness ==
    /\ pc = "exited"
    /\ exit_code = 0
    /\ RaisedFutures # {}
    /\ \E k \in 1..Len(log) : log[k].context = "GEO"
    /\ \E k \in 1..Len(write_log) : ~write_log[k].success

\* C11: under the scheduling above the run ends, and a run that has ended has
\* no extraction queued or executing and no finished extraction that the
\* driver's loop has not taken.
C11_TerminatesAfterAllConsumed ==
    /\ <>(pc = "exited")
    /\ [](pc = "exited" =>
             /\ Pending = {}
             /\ Running = {}
             /\ Finished \subseteq Taken)

\* C11 witness: a run of two accounts has ended; the extraction that finished
\* first raised and the driver took it second.
C11_Witness ==
    /\ pc = "exited"
    /\ Len(futures) = 2
    /\ Len(finish_order) = 2
    /\ futures[finish_order[1]].raised
    /\ consumed[2] = finish_order[1]

\* C12: never more than max_workers (10) extractions execute at once,
\* whatever the number of accounts; a queued extraction starts only when
\* fewer than max_workers execute; and whenever an extraction is queued and
\* fewer than max_workers execute, the oldest queued extraction can start, so
\* an account beyond the capacity waits for a free thread and no longer.
C12_PoolCapacity ==
    /\ [](Cardinality(Running) <= max_workers)
    /\ [][\A i \in Pending : futures'[i].state = "running" =>
               Cardinality(Running) < max_workers]_vars
    /\ [](Pending # {} /\ Cardinality(Running) < max_workers =>
             \E i \in Pending : ENABLED WorkerStart(i))
    /\ [](Pending # {} /\ Cardinality(Running) = max_workers =>
             \A i \in Pending : ~ENABLED WorkerStart(i))

\* C12 witness: more accounts than threads: the pool is full and the last
\* account waits in the queue.
C12_Witness ==
    /\ Len(accounts_list) > max_workers
    /\ Cardinality(Running) = max_workers
    /\ Len(accounts_list) \in Pending

\* The load jobs a step adds to write_log.
NewWrites == {k \in 1..Len(write_log') : k > Len(write_log)}

\* What the pool sets of its futures: all of a future but the RecordSets of
\* its result, which the driver's loads convert.
PoolPart(fs) ==
    [j \in 1..Len(fs) |-> [state |-> fs[j].state, raised |-> fs[j].raised,
                           plan |-> fs[j].plan, printed |-> fs[j].printed]]

\* C13: a step of the pool (a future is submitted, started or finished, or
\* prints a line) leaves the three flags, the tables and the issued loads
\* unchanged; a step that changes one of them is a step of the driver's loop
\* body, which is in the load of one table for the one result it took last,
\* and it issues that one load, so loads never overlap; it is no step of the
\* pool and touches no future but that one; and no table has two successful
\* loads that both saw its flag set.
C13_OnlyDriverWrites ==
    /\ [][PoolPart(futures') # PoolPart(futures) \/ finish_order' # finish_order =>
             UNCHANGED <<first_run, tables, write_log>>]_vars
    /\ [][~UNCHANGED <<first_run, tables, write_log>> =>
             /\ pc \in TableSet
             /\ PoolPart(futures') = PoolPart(futures)
             /\ \A j \in 1..Len(futures) :
                   j # consumed[Len(consumed)] => futures'[j] = futures[j]
             /\ UNCHANGED <<finish_order, consumed>>
             /\ Cardinality(NewWrites) = 1
             /\ \A k \in NewWrites :
                   /\ write_log'[k].account = accounts_list[consumed[Len(consumed)]].id
                   /\ write_log'[k].table = pc
             /\ \A t \in TableSet \ {pc} :
                   first_run'[t] = first_run[t] /\ tables'[t] = tables[t]]_vars
    /\ [](\A t \in TableSet :
             Cardinality({k \in SucceededTo(t) :
                             write_log[k].write_disposition = "WRITE_TRUNCATE"}) <= 1)

\* C13 witness: the driver has loaded a RecordSet of one account and cleared
\* a flag, and is in its next load, while the extraction of another account
\* is still executing and has printed a line.
C13_Witness ==
    /\ pc \in TableSet
    /\ \E i \in Running : futures[i].printed > 0
    /\ \E t \in TableSet : Written(t) /\ SucceededTo(t) # {}
    /\ consumed # <<>>

\* Position of future i in the order of completion.
FinishRank(i) == CHOOSE k \in 1..Len(finish_order) : finish_order[k] = i

\* C14 (as claimed): the results are taken in the order in which the
\* extractions completed, those that completed before the loop started
\* included: the futures taken so far are the first to have finished, in that
\* order.
C14_CompletionOrder ==
    consumed = SubSeq(finish_order, 1, Len(consumed))

\* C14 (amended): the driver takes only results of finished extractions, and
\* it takes a result ahead of one that completed earlier only when both had
\* completed before as_completed started (both are in its initial set of
\* finished futures, which it yields in no particular order); otherwise the
\* earlier completion is taken first, whatever the order of submission.
C14_CompletionOrderOnceWaiting ==
    /\ [](Taken \subseteq SeqToSet(finish_order))
    /\ [][consumed' # consumed =>
             LET i == consumed'[Len(consumed')]
             IN  \A x \in SeqToSet(finish_order) \ (Taken \cup {i}) :
                    FinishRank(x) < FinishRank(i) => x \in snapshot /\ i \in snapshot]_vars

\* C14 witness: the second account submitted completed first and was taken
\* first, the first account after it.
C14_Witness ==
    /\ finish_order = <<2, 1>>
    /\ consumed = <<2, 1>>

\* C16: nothing is done twice.  The RecordSet of an account for a table is
\* handed to the sink at most once, and exactly once when the loop body has
\* gone past it, the extraction returned and the RecordSet is not empty,
\* whether or not that load failed; a result is taken once; an extraction
\* finishes once, and a finished future stays finished, failed or not, with
\* the rows it finished with (the loads rewrite the ids of the rows as
\* strings in place, and nothing else).
C16_NoRetry ==
    /\ [](\A i \in 1..Len(futures) : \A t \in TableSet :
             Cardinality(WritesOf(i, t)) =
                 (IF Passed(i, t) /\ ~futures[i].raised /\ ~IsEmpty(futures[i].result[t])
                  THEN 1 ELSE 0))
    /\ [](\A j, k \in 1..Len(consumed) : consumed[j] = consumed[k] => j = k)
    /\ [](\A j, k \in 1..Len(finish_order) : finish_order[j] = finish_order[k] => j = k)
    /\ [](Len(futures) <= Len(accounts_list))
    /\ [][futures' # futures =>
             \A i \in Finished :
                /\ i <= Len(futures')
                /\ \/ futures'[i] = futures[i]
                   \/ /\ [futures'[i] EXCEPT !.result = futures[i].result] = futures[i]
                      /\ futures'[i].result.name = futures[i].result.name
                      /\ \A t \in TableSet :
                            futures'[i].result[t] \in
                                {futures[i].result[t],
                                 AsTypeStrEach(futures[i].result[t], IdColumns)}]_vars

\* C16 witness: a run has ended in which an extraction failed and a load
\* failed, and the table of that load was written by no other load.
C16_Witness ==
    /\ pc = "exited"
    /\ \E i \in Taken : futures[i].raised
    /\ \E t \in TableSet : FailedTo(t) # {} /\ SucceededTo(t) = {}

\* The batch a load job of write_log carried: the RecordSet of its account
\* for its table, ids as strings.
BatchOf(w) ==
    LET i == CHOOSE j \in 1..Len(accounts_list) : accounts_list[j].id = w.account
    IN  AsTypeStrEach(futures[i].result[w.table], IdColumns)

\* The batches whose load on table t succeeded, in the order of the loads.
SucceededBatches(t) ==
    LET ws == SelectSeq(write_log, LAMBDA w : w.table = t /\ w.success)
    IN  [k \in 1..Len(ws) |-> BatchOf(ws[k])]

\* C18: at the end of a run, a table on which a load succeeded holds the rows
\* of the batches whose load succeeded, each batch once, and no row from
\* before the run; a table on which no load succeeded holds what it held
\* before the run.
C18_TableContentsAtEnd ==
    pc = "exited" =>
        \A t \in TableSet :
            IF SucceededTo(t) = {}
            THEN tables[t] = PreviousRun
            ELSE LET batches == SucceededBatches(t)
                 IN  /\ tables[t].rows =
                           Flatten([k \in 1..Len(batches) |-> batches[k].rows])
                     /\ tables[t].columns =
                           UNION {batches[k].columns : k \in 1..Len(batches)}
                     /\ \A k \in 1..Len(tables[t].rows) :
                           tables[t].rows[k] # PreviousRun.rows[1]

\* C18 witness: a run has ended; one table took one batch after a load on it
\* had failed, another took the batches of two accounts, and a third, on
\* which every load failed, holds the rows of the previous run.
C18_Witness ==
    /\ pc = "exited"
    /\ \E t \in TableSet :
          /\ Cardinality(SucceededTo(t)) = 1
          /\ \E j \in FailedTo(t) : \E k \in SucceededTo(t) : j < k
    /\ \E t \in TableSet : Cardinality(SucceededTo(t)) = 2
    /\ \E u \in TableSet :
          FailedTo(u) # {} /\ SucceededTo(u) = {} /\ tables[u] = PreviousRun

(***************************************************************************)
(* The extraction sub-tasks of one account, one call at a time: the input  *)
(* is what the source answers to the queries of the sub-task.              *)
(***************************************************************************)
\* Sequences of distinct elements of S, of length at most n: the source
\* yields a row once.
DistinctSeqs(S, n) ==
    {s \in SeqsUpTo(S, n) : \A i, j \in 1..Len(s) : i # j => s[i] # s[j]}

\* The ways a query can end: with rows, or with one of the two errors.
Answers(S) ==
    {Ok(s) : s \in DistinctSeqs(S, MaxRows)} \cup {GoogleAdsError(<<>>), OtherError}

\* The budget query, whose rows count up to the point of its failure.
BudgetAnswers ==
    LET seqs == DistinctSeqs({BudgetSample(1)}, MaxRows)
    IN  {Ok(s) : s \in seqs} \cup {GoogleAdsError(s) : s \in seqs} \cup {OtherError}

StdUniverse == {StdSample(1, Dates[1]), StdSample(2, Dates[1])}

\* Two conversion actions of a key the metrics can have, and a key they
\* never have.
StdConvUniverse ==
    {StdConvSample(1, Dates[1], "lead"), StdConvSample(1, Dates[1], "sale"),
     StdConvSample(2, Dates[2], "lead")}

PmaxUniverse == {PmaxSample(4, Dates[1]), PmaxSample(5, Dates[1])}

PmaxConvUniverse ==
    {PmaxConvSample(4, Dates[1], "lead"), PmaxConvSample(4, Dates[1], "sale"),
     PmaxConvSample(5, Dates[2], "lead")}

CampaignInputs ==
    [kind : {"camp"},
     budgets : BudgetAnswers,
     std : Answers(StdUniverse),
     std_conv : Answers(StdConvUniverse),
     pmax : Answers(PmaxUniverse),
     pmax_conv : Answers(PmaxConvUniverse)]

GeoInputs == [kind : {"geo"}, geo : Answers({GeoSample(1), GeoSample(2)})]

SearchInputs == [kind : {"search"}, search : Answers({SearchSample(1), SearchSample(2)})]

\* The account the sub-tasks are called for.
TheAccount == [id |-> "1", name |-> "name"]

InitExtract ==
    /\ InitRun
    /\ response = [rows |-> <<>>, err |-> "none"]
    /\ x_in \in CampaignInputs \cup GeoInputs \cup SearchInputs
    /\ x_out = NotRun

Done(r) == [raised |-> r.raised, df |-> r.df, log |-> r.log, done |-> TRUE]

RunCampaign ==
    /\ x_in.kind = "camp"
    /\ ~x_out.done
    /\ x_out' = Done(get_all_campaign_data_for_account(TheAccount.id, TheAccount.name, x_in))
    /\ UNCHANGED <<run_vars, x_in>>

RunGeo ==
    /\ x_in.kind = "geo"
    /\ ~x_out.done
    /\ x_out' = Done(get_geo_data_for_account(TheAccount.id, TheAccount.name, x_in.geo))
    /\ UNCHANGED <<run_vars, x_in>>

RunSearch ==
    /\ x_in.kind = "search"
    /\ ~x_out.done
    /\ x_out' = Done(get_search_query_data_for_account(TheAccount.id, TheAccount.name,
                                                       x_in.search))
    /\ UNCHANGED <<run_vars, x_in>>

NextExtract == RunCampaign \/ RunGeo \/ RunSearch

SpecExtract == InitExtract /\ [][NextExtract]_vars

(***************************************************************************)
(* Properties of the extraction sub-tasks.                                 *)
(***************************************************************************)
\* The campaign sub-task has returned and none of its five queries failed.
CampaignReturnedClean ==
    /\ x_in.kind = "camp"
    /\ x_out.done
    /\ ~x_out.raised
    /\ \A q \in {"budgets", "std", "std_conv", "pmax", "pmax_conv"} : x_in[q].err = "none"

\* The rows of the returned frame from the standard campaigns (str ids) and
\* from the automated campaigns (int ids).
OutRows(tag) ==
    {k \in 1..Len(x_out.df.rows) : x_out.df.rows[k]["campaign_id"][1] = tag}

StdKey(r) == <<Str(r.campaign_id), Str(r.ad_group_id), r.date>>

PmaxKey(r) == <<r.campaign_id, r.date>>

StdKeysIn(q) == {StdKey(x_in[q].rows[k]) : k \in 1..Len(x_in[q].rows)}

PmaxKeysIn(q) == {PmaxKey(x_in[q].rows[k]) : k \in 1..Len(x_in[q].rows)}

StdKeysOut ==
    {<<x_out.df.rows[k]["campaign_id"][2], x_out.df.rows[k]["ad_group_id"][2],
       x_out.df.rows[k]["date"]>> : k \in OutRows("str")}

PmaxKeysOut ==
    {<<x_out.df.rows[k]["campaign_id"][2], x_out.df.rows[k]["date"]>> : k \in OutRows("int")}

MeasureColumns == SeqToSet(cols_zero)

\* C7 (as claimed): when the campaign sub-task combines metrics rows and
\* conversion rows, the result has a row for every key of either side and for
\* no other key, and every row has a value for each of the five measure
\* columns.
C7_OuterJoinZeroFilled ==
    CampaignReturnedClean =>
        /\ StdKeysOut = StdKeysIn("std") \cup StdKeysIn("std_conv")
        /\ PmaxKeysOut = PmaxKeysIn("pmax") \cup PmaxKeysIn("pmax_conv")
        /\ \A k \in 1..Len(x_out.df.rows) : MeasureColumns \subseteq DOMAIN x_out.df.rows[k]

\* C17 (as claimed): every row of an automated campaign in the frame the
\* campaign sub-task returns has the placeholder ad-group name, the rows that
\* come from the conversions query alone included.
C17_PlaceholderAdGroup ==
    x_in.kind = "camp" /\ x_out.done /\ ~x_out.raised =>
        \A k \in OutRows("int") :
            /\ "ad_group_name" \in DOMAIN x_out.df.rows[k]
            /\ x_out.df.rows[k]["ad_group_name"] = "Performance Max"

\* A query of the sub-task that ran and raised a source error: a query runs
\* unless an earlier query of its try block failed.
CampaignSourceError ==
    \/ x_in.budgets.err = "GoogleAdsException"
    \/ x_in.std.err = "GoogleAdsException"
    \/ x_in.std.err = "none" /\ x_in.std_conv.err = "GoogleAdsException"
    \/ x_in.pmax.err = "GoogleAdsException"
    \/ x_in.pmax.err = "none" /\ x_in.pmax_conv.err = "GoogleAdsException"

SubTaskSourceError ==
    CASE x_in.kind = "camp" -> CampaignSourceError
      [] x_in.kind = "geo" -> x_in.geo.err = "GoogleAdsException"
      [] x_in.kind = "search" -> x_in.search.err = "GoogleAdsException"

\* The queries of the sub-task that ran and raised a source error, and the
\* log records of the sub-task that name the account.
FailedQueries ==
    CASE x_in.kind = "camp" ->
            {q \in {"budgets", "std", "pmax"} : x_in[q].err = "GoogleAdsException"}
            \cup {q \in {"std_conv"} :
                     x_in.std.err = "none" /\ x_in.std_conv.err = "GoogleAdsException"}
            \cup {q \in {"pmax_conv"} :
                     x_in.pmax.err = "none" /\ x_in.pmax_conv.err = "GoogleAdsException"}
      [] x_in.kind = "geo" -> {q \in {"geo"} : x_in.geo.err = "GoogleAdsException"}
      [] x_in.kind = "search" -> {q \in {"search"} : x_in.search.err = "GoogleAdsException"}

RecordsNaming(printed, id) == {k \in 1..Len(printed) : printed[k].account = id}

\* C15 (as claimed): every error leaves a log record that names the account
\* or the table: a sub-task that returned has printed a record naming the
\* account for each of its queries that failed, the budget query included;
\* every extraction that raised and was taken has a record naming its
\* account; every load that failed has a record naming its table.
C15_EveryErrorLoggedWithContext ==
    /\ x_out.done /\ ~x_out.raised =>
          Cardinality(RecordsNaming(x_out.log, TheAccount.id)) >= Cardinality(FailedQueries)
    /\ \A i \in Taken \cap RaisedFutures :
          \E k \in RecordsNaming(log, accounts_list[i].id) : log[k].context = "thread"
    /\ \A t \in TableSet :
          Cardinality({k \in RecordsNaming(log, t) : log[k].context = "BigQuery"})
              = Cardinality(FailedTo(t))

\* C8 (as claimed): a sub-task one of whose queries raised a source error
\* returns an empty RecordSet.
C8_SourceErrorGivesEmpty ==
    x_out.done /\ ~x_out.raised /\ SubTaskSourceError => IsEmpty(x_out.df)

(***************************************************************************)
(* src/ga_api_upd/ga_client_download_data.py: the run for one account,     *)
(* which loads one table with the replace disposition.                     *)
(***************************************************************************)
\* df[cols] = df[cols].fillna(value): selecting a list of columns raises
\* KeyError when one of them is not a column of the frame.
FillNaColumns(df, cols, value) ==
    IF SeqToSet(cols) \subseteq df.columns
    THEN Returned(FillNaEach(df, cols, value), <<>>)
    ELSE Raised(<<>>)

client_cols_zero == <<"clicks", "cost", "conversions", "impressions">>

ClientSample(campaign, ad_group, d) ==
    [campaign_name |-> campaign, ad_group_name |-> ad_group, date |-> d,
     clicks |-> 5, impressions |-> 50, cost_micros |-> 2 * MICROS]

ClientConvSample(campaign, ad_group, d, action) ==
    [campaign_name |-> campaign, ad_group_name |-> ad_group, date |-> d,
     conversion_action_name |-> action, conversions |-> 1]

ClientMetricsRow(ad_group_name, r) ==
    [campaign_name |-> r.campaign_name,
     ad_group_name |-> ad_group_name,
     date |-> r.date,
     clicks |-> r.clicks,
     impressions |-> r.impressions,
     cost |-> FromMicros(r.cost_micros)]

ClientConvRow(ad_group_name, r) ==
    [campaign_name |-> r.campaign_name,
     ad_group_name |-> ad_group_name,
     date |-> r.date,
     conversion_name |-> r.conversion_action_name,
     conversions |-> r.conversions]

client_on == <<"campaign_name", "ad_group_name", "date">>

\* load_pmax_data of the single-account script.
client_load_pmax_data(customer_id, q_general, q_conv) ==
    LET pmax_df == DataFrame([i \in 1..Len(q_general.rows) |->
                                ClientMetricsRow("Performance Max", q_general.rows[i])])
        pmax_conversions_df ==
            DataFrame([i \in 1..Len(q_conv.rows) |->
                         ClientConvRow("Performance Max", q_conv.rows[i])])
        handled == Returned(EmptyFrame, <<LogEntry("PMax", customer_id)>>)
        final_pmax_df ==
            IF IsEmpty(pmax_df) THEN pmax_conversions_df
            ELSE IF IsEmpty(pmax_conversions_df) THEN pmax_df
            ELSE Merge(pmax_df, pmax_conversions_df, client_on)
    IN  IF q_general.err = "Exception" THEN Raised(<<>>)
        ELSE IF q_general.err = "GoogleAdsException" THEN handled
        ELSE IF q_conv.err = "Exception" THEN Raised(<<>>)
        ELSE IF q_conv.err = "GoogleAdsException" THEN handled
        ELSE IF IsEmpty(pmax_df) /\ IsEmpty(pmax_conversions_df)
             THEN Returned(EmptyFrame, <<>>)
        ELSE FillNaColumns(final_pmax_df, client_cols_zero, 0)

\* load_all_campaign_data.  outcome is how the call ends: "exit" is
\* sys.exit(1), "raised" an exception that nothing catches, "no_data" the
\* return without a load, "loaded" the return after the load.
load_all_campaign_data(customer_id, src, table, job_ok) ==
    LET campaign_df == DataFrame([i \in 1..Len(src.std.rows) |->
                                    ClientMetricsRow(src.std.rows[i].ad_group_name,
                                                     src.std.rows[i])])
        conversions_df == DataFrame([i \in 1..Len(src.std_conv.rows) |->
                                       ClientConvRow(src.std_conv.rows[i].ad_group_name,
                                                     src.std_conv.rows[i])])
        standard_final_df ==
            IF IsEmpty(campaign_df) /\ IsEmpty(conversions_df) THEN EmptyFrame
            ELSE IF IsEmpty(campaign_df) THEN conversions_df
            ELSE IF IsEmpty(conversions_df) THEN campaign_df
            ELSE Merge(campaign_df, conversions_df, client_on)
        pmax == client_load_pmax_data(customer_id, src.pmax, src.pmax_conv)
        filled == FillNaColumns(Concat(standard_final_df, pmax.df), client_cols_zero, 0)
        End(outcome, df, new_table, writes, printed) ==
            [outcome |-> outcome, df |-> df, table |-> new_table,
             writes |-> writes, log |-> printed]
        Write(success) ==
            [table |-> "camp", account |-> customer_id,
             write_disposition |-> "WRITE_TRUNCATE", success |-> success]
        source_exit == End("exit", EmptyFrame, table, <<>>,
                           <<LogEntry("request", customer_id)>>)
        uncaught(printed) == End("raised", EmptyFrame, table, <<>>, printed)
    IN  IF src.std.err = "Exception" THEN uncaught(<<>>)
        ELSE IF src.std.err = "GoogleAdsException" THEN source_exit
        ELSE IF src.std_conv.err = "Exception" THEN uncaught(<<>>)
        ELSE IF src.std_conv.err = "GoogleAdsException" THEN source_exit
        ELSE IF pmax.raised THEN uncaught(pmax.log)
        ELSE IF filled.raised THEN uncaught(pmax.log)
        ELSE IF IsEmpty(filled.df) THEN End("no_data", filled.df, table, <<>>, pmax.log)
        ELSE IF job_ok
             THEN End("loaded", filled.df, LoadTable(table, filled.df, "WRITE_TRUNCATE"),
                      <<Write(TRUE)>>, pmax.log)
        ELSE End("exit", filled.df, table, <<Write(FALSE)>>,
                 pmax.log \o <<LogEntry("BigQuery", "camp")>>)

\* What the source answers to the four queries of the script.
ClientStdUniverse ==
    {ClientSample("search", "brand", Dates[1]), ClientSample("search", "other", Dates[1])}

ClientStdConvUniverse ==
    {ClientConvSample("search", "brand", Dates[1], "lead"),
     ClientConvSample("search", "brand", Dates[2], "lead")}

ClientPmaxUniverse ==
    {ClientSample("pmax", "", Dates[1]), ClientSample("pmax", "", Dates[2])}

ClientPmaxConvUniverse ==
    {ClientConvSample("pmax", "", Dates[1], "lead"),
     ClientConvSample("pmax", "", Dates[1], "sale")}

ClientInputs ==
    [kind : {"client"},
     std : Answers(ClientStdUniverse),
     std_conv : Answers(ClientStdConvUniverse),
     pmax : Answers(ClientPmaxUniverse),
     pmax_conv : Answers(ClientPmaxConvUniverse)]

InitClient ==
    /\ InitRun
    /\ response = [rows |-> <<>>, err |-> "none"]
    /\ x_in \in ClientInputs
    /\ x_out = NotRun

\* GoogleAdsClient.load_from_storage: a failure prints and exits with 1.
ClientSetup ==
    /\ pc = "setup"
    /\ x_in.kind = "client"
    /\ \E outcome \in {"ok", "client_error"} :
          IF outcome = "ok"
          THEN /\ pc' = "load"
               /\ UNCHANGED <<exit_code, log>>
          ELSE /\ pc' = "exited"
               /\ exit_code' = 1
               /\ log' = Append(log, LogEntry(outcome, ""))
    /\ UNCHANGED <<response, accounts_list, futures, finish_order, snapshot, consumed,
                   first_run, tables, write_log, x_in, x_out>>

\* The call of load_all_campaign_data, with which the script ends: an
\* uncaught exception ends the process with status 1, like sys.exit(1).
ClientLoad ==
    /\ pc = "load"
    /\ \E job_ok \in BOOLEAN :
          LET end == load_all_campaign_data(TheAccount.id, x_in, tables["camp"], job_ok)
          IN  /\ x_out' = [raised |-> end.outcome = "raised", df |-> end.df,
                           log |-> end.log, done |-> TRUE]
              /\ tables' = [tables EXCEPT !["camp"] = end.table]
              /\ write_log' = write_log \o end.writes
              /\ log' = log \o end.log
              /\ exit_code' = (IF end.outcome \in {"exit", "raised"} THEN 1 ELSE 0)
    /\ pc' = "exited"
    /\ UNCHANGED <<response, accounts_list, futures, finish_order, snapshot, consumed,
                   first_run, x_in>>

NextClient == ClientSetup \/ ClientLoad

SpecClient == InitClient /\ [][NextClient]_vars

\* C19 (as claimed): when the four queries succeed, whatever rows each
\* returns, the run of the single-account script does not end in an uncaught
\* exception: it ends with exit status 0 and no load (no data), or it has
\* issued exactly one load, with the replace disposition.
C19_NoUnhandledError ==
    /\ x_in.kind = "client"
    /\ x_out.done
    /\ \A q \in {"std", "std_conv", "pmax", "pmax_conv"} : x_in[q].err = "none"
    => /\ ~x_out.raised
       /\ \/ write_log = <<>> /\ exit_code = 0
          \/ Len(write_log) = 1 /\ write_log[1].write_disposition = "WRITE_TRUNCATE"

====
